---------------------------- MODULE Spec2Model ----------------------------
(***************************************************************************)
(* Model of the mockable crate: the Mock call recorder (src/src/mock.rs)   *)
(* and the transactional() executor with its default and mock clients      *)
(* (src/src/postgres.rs).                                                  *)
(***************************************************************************)
EXTENDS Integers, Sequences, FiniteSets, TLC

(***************************************************************************)
(* Bounds of the model.                                                    *)
(***************************************************************************)
\* width of usize in the model (the counter wraps at 2^UsizeBits)
UsizeBits == 2
\* invocations of transactional() on one client handle
MaxInvocations == 2
\* entries of the scripted `transaction` Mock of a MockPostgresClient
MaxTxEntries == 2
\* entries of the scripted Mock shared by the threads
MaxEntries == 2
\* threads calling the shared Mock
NThreads == 2
\* calls made on the shared Mock, over all threads
MaxCalls == 4
\* handles (the Mock and its clones)
MaxHandles == 2
\* calls a single caller makes on an always Mock past the range of usize
ExtraCalls == 2
\* length of the values of the environment variable
MaxStrLen == 3
\* getter calls made on one DefaultEnv
MaxGets == 2
\* requests the clients send to one DefaultHttpServer
MaxReqs == 2

UsizeModulus == 2 ^ UsizeBits
UsizeMax == UsizeModulus - 1
Usize == 0 .. UsizeMax

(***************************************************************************)
(* Values.                                                                 *)
(***************************************************************************)
\* the argument type ARGS = ()
Unit == "unit"
UnitArgs == {Unit}
\* placeholder of a value that does not exist (a panicked call has no value)
NoVal == "-"
\* success values T and failure values E of the caller's operation
Vals == {"v1", "v2"}
OpErrs == {"e1", "e2"}
\* PostgresError values
PgErrs == {"x1", "x2"}
\* values of the argument type ARGS of the shared Mock
MockArgs == {"a", "b"}

\* Result<T, E> of the operation
Ok(v) == [tag |-> "Ok", val |-> v]
Err(e) == [tag |-> "Err", val |-> e]
OpResults == {Ok(v) : v \in Vals} \cup {Err(e) : e \in OpErrs}
NoResult == [tag |-> "None", val |-> NoVal]

\* PostgresResult<()>
PgOk == [tag |-> "Ok", val |-> NoVal]
PgErr(x) == [tag |-> "Err", val |-> x]

\* PostgresResult<Result<T, E>>
OuterOk(inner) == [tag |-> "Ok", inner |-> inner, err |-> NoVal]
OuterErr(x) == [tag |-> "Err", inner |-> NoResult, err |-> x]
NoOuter == [tag |-> "None", inner |-> NoResult, err |-> NoVal]

(***************************************************************************)
(* Mock (src/src/mock.rs).  A Mock value is [idx, kind]; kind is           *)
(* Always(f) with f over <<index, args>> or CallSpecific(fns) with fns a   *)
(* sequence of functions over args.                                        *)
(***************************************************************************)
KindAlways(f) == [tag |-> "Always", f |-> f]
KindCallSpecific(fns) == [tag |-> "CallSpecific", fns |-> fns]

MockAlwaysWithArgs(f) == [idx |-> 0, kind |-> KindAlways(f)]
MockWith(fns) == [idx |-> 0, kind |-> KindCallSpecific(fns)]
MockNever == MockWith(<<>>)
MockOnceWithArgs(f) == MockWith(<<f>>)
\* always(f) = always_with_args(move |idx, _| f(idx)); f given as a function over indices
MockAlways(f) == MockAlwaysWithArgs([p \in Usize \X UnitArgs |-> f[p[1]]])
\* once(f) = once_with_args(move |_| f()); f given by the value it returns
MockOnce(v) == MockOnceWithArgs([a \in UnitArgs |-> v])
MockDefault == MockNever

\* faulty variant: the counter is read, not incremented (load for fetch_add)
FetchAddLoadOnly(v) == v

\* AtomicUsize::fetch_add(1): the new value of the counter (wrapping)
FetchAdd(v) == (v + 1) % UsizeModulus

\* faulty variant: the entries are taken from the end of the list
DispatchReversed(kind, idx, args) ==
    IF kind.tag = "Always"
    THEN [panicked |-> FALSE, val |-> kind.f[<<idx, args>>]]
    ELSE IF idx >= Len(kind.fns)
         THEN [panicked |-> TRUE, val |-> NoVal]
         ELSE [panicked |-> FALSE, val |-> kind.fns[Len(kind.fns) - idx][args]]

\* faulty variant: the always function is given the counter's new value
DispatchOneBased(kind, idx, args) ==
    IF kind.tag = "Always"
    THEN [panicked |-> FALSE, val |-> kind.f[<<FetchAdd(idx), args>>]]
    ELSE IF idx >= Len(kind.fns)
         THEN [panicked |-> TRUE, val |-> NoVal]
         ELSE [panicked |-> FALSE, val |-> kind.fns[idx + 1][args]]

\* the match of call_with_args on the kind, with the claimed index
Dispatch(kind, idx, args) ==
    IF kind.tag = "Always"
    THEN [panicked |-> FALSE, val |-> kind.f[<<idx, args>>]]
    ELSE IF idx >= Len(kind.fns)
         THEN [panicked |-> TRUE, val |-> NoVal]
         ELSE [panicked |-> FALSE, val |-> kind.fns[idx + 1][args]]

\* call_with_args by a single caller: the mock afterwards and the outcome
CallWithArgs(m, args) ==
    [mock |-> [m EXCEPT !.idx = FetchAdd(m.idx)],
     out  |-> Dispatch(m.kind, m.idx, args)]
Call(m) == CallWithArgs(m, Unit)
Count(m) == m.idx
Times(m) == IF m.kind.tag = "Always" THEN UsizeMax ELSE Len(m.kind.fns)

(***************************************************************************)
(* Clients and transactions (src/src/postgres.rs).                         *)
(***************************************************************************)
\* Mock<PostgresResult<()>> scripts of a MockPostgresTransaction field
PgMocks == {MockDefault, MockOnce(PgOk), MockOnce(PgErr("x1"))}
MockPostgresTransaction(c, r) == [kind |-> "mock", commit |-> c, rollback |-> r]
MockTxs == {MockPostgresTransaction(c, r) : c \in PgMocks, r \in PgMocks}
DefaultPostgresTransaction == [kind |-> "default"]
NoTx == [kind |-> "none"]

TxFns == UNION {[1 .. n -> {[a \in UnitArgs |-> t] : t \in MockTxs}] : n \in 0 .. MaxTxEntries}
MockPostgresClient(m) == [kind |-> "mock", transaction |-> m]
DefaultPostgresClient == [kind |-> "default"]
Clients ==
    {DefaultPostgresClient}
    \cup {MockPostgresClient(MockWith(fns)) : fns \in TxFns}
    \cup {MockPostgresClient(MockAlways([i \in Usize |-> t])) :
            t \in {MockPostgresTransaction(MockOnce(PgOk), MockOnce(PgOk))}}

\* PostgresClient::transaction: the possible outcomes of opening
ClientTransaction(c) ==
    IF c.kind = "default"
    THEN {[client |-> c, panicked |-> FALSE, res |-> PgOk, tx |-> DefaultPostgresTransaction]}
         \cup {[client |-> c, panicked |-> FALSE, res |-> PgErr(x), tx |-> NoTx] : x \in PgErrs}
    ELSE LET r == Call(c.transaction) IN
         {[client |-> [c EXCEPT !.transaction = r.mock],
           panicked |-> r.out.panicked,
           res |-> PgOk,
           tx |-> IF r.out.panicked THEN NoTx ELSE r.out.val]}

\* PostgresTransaction::commit: the possible outcomes
TxCommit(t) ==
    IF t.kind = "default"
    THEN {[tx |-> t, panicked |-> FALSE, res |-> PgOk]}
         \cup {[tx |-> t, panicked |-> FALSE, res |-> PgErr(x)] : x \in PgErrs}
    ELSE LET r == Call(t.commit) IN
         {[tx |-> [t EXCEPT !.commit = r.mock],
           panicked |-> r.out.panicked,
           res |-> IF r.out.panicked THEN PgOk ELSE r.out.val]}

\* PostgresTransaction::rollback: the possible outcomes
TxRollback(t) ==
    IF t.kind = "default"
    THEN {[tx |-> t, panicked |-> FALSE, res |-> PgOk]}
         \cup {[tx |-> t, panicked |-> FALSE, res |-> PgErr(x)] : x \in PgErrs}
    ELSE LET r == Call(t.rollback) IN
         {[tx |-> [t EXCEPT !.rollback = r.mock],
           panicked |-> r.out.panicked,
           res |-> IF r.out.panicked THEN PgOk ELSE r.out.val]}

(***************************************************************************)
(* State of one client handle and of the invocation of transactional()     *)
(* in flight on it.                                                        *)
(***************************************************************************)
VARIABLES
    client,       \* the &mut dyn PostgresClient handle
    pc,           \* position of the invocation of transactional()
    tx,           \* the transaction of this invocation (NoTx before open); kept
                  \* after commit / rollback consumed it, to read its mocks
    openRes,      \* what client.transaction().await returned
    opResult,     \* what f(tx.as_ref()).await returned
    resolveRes,   \* what commit / rollback returned
    result,       \* what transactional() returned
    calls,        \* calls made by this invocation: transaction, f, commit, rollback
    leftAt,       \* where the invocation was when it unwound or was dropped
    invocations   \* invocations started on the handle

(***************************************************************************)
(* State of the Mock shared by threads.                                    *)
(***************************************************************************)
VARIABLES
    heap,         \* the Arc<AtomicUsize> counters allocated, by reference
    handles,      \* the Mock structs: the original and its clones
    thr,          \* per thread: position in call_with_args and its locals
    ncalls,       \* per thread: calls entered
    history       \* the calls in the order of their fetch_add, with outcome

(***************************************************************************)
(* State of a Mock called by a single caller.                              *)
(***************************************************************************)
VARIABLES
    rec,          \* the Mock
    seqHistory    \* its calls in order: index claimed, argument, outcome

(***************************************************************************)
(* State of a DefaultEnv and of its caller.                                *)
(***************************************************************************)
VARIABLES
    env,          \* the DefaultEnv: what its wrapper answers, and the reads made
    envOut        \* the getter calls made, and what the last one returned

(***************************************************************************)
(* State of a DefaultHttpServer, of its holder and of its clients.         *)
(***************************************************************************)
VARIABLES
    resp,         \* the response given to with_response
    owner,        \* the handle: held, in stop(), stopped, or dropped
    server,       \* the spawned server task: running, draining, finished
    chan,         \* the requests in the request channel
    waiters,      \* the handlers waiting in req_tx.send, oldest first
    reqs,         \* per request: where it is, what was sent, what came back
    arrived,      \* the requests in the order their handlers reached send
    delivered     \* what next() has returned, in order

txVars == <<client, pc, tx, openRes, opResult, resolveRes, result, calls, leftAt, invocations>>
mockVars == <<heap, handles, thr, ncalls, history>>
seqVars == <<rec, seqHistory>>
envVars == <<env, envOut>>
httpVars == <<resp, owner, server, chan, waiters, reqs, arrived, delivered>>
vars == <<txVars, mockVars, seqVars, envVars, httpVars>>
exceptTx == <<mockVars, seqVars, envVars, httpVars>>
exceptMock == <<txVars, seqVars, envVars, httpVars>>
exceptSeq == <<txVars, mockVars, envVars, httpVars>>
exceptEnv == <<txVars, mockVars, seqVars, httpVars>>
exceptHttp == <<txVars, mockVars, seqVars, envVars>>

NoCalls == [transaction |-> 0, f |-> 0, commit |-> 0, rollback |-> 0]
Terminal == {"returned", "panicked", "dropped"}

TxInit ==
    /\ client \in Clients
    /\ pc = "idle"
    /\ tx = NoTx
    /\ openRes = NoResult
    /\ opResult = NoResult
    /\ resolveRes = NoResult
    /\ result = NoOuter
    /\ calls = NoCalls
    /\ leftAt = "-"
    /\ invocations = 0

\* faulty variant: the handle is taken by shared reference, so an invocation
\* can start while another is in flight on it
TransactionalShared ==
    /\ invocations < MaxInvocations
    /\ invocations' = invocations + 1
    /\ pc' = "opening"
    /\ tx' = NoTx
    /\ openRes' = NoResult
    /\ opResult' = NoResult
    /\ resolveRes' = NoResult
    /\ result' = NoOuter
    /\ calls' = [NoCalls EXCEPT !.transaction = 1]
    /\ leftAt' = "-"
    /\ UNCHANGED client

\* the caller invokes transactional(client, f): client.transaction() is called.
\* client is a &mut borrow held until the invocation has ended, so no
\* invocation is in flight on the handle
Transactional ==
    /\ pc \in {"idle"} \cup Terminal
    /\ invocations < MaxInvocations
    /\ invocations' = invocations + 1
    /\ pc' = "opening"
    /\ tx' = NoTx
    /\ openRes' = NoResult
    /\ opResult' = NoResult
    /\ resolveRes' = NoResult
    /\ result' = NoOuter
    /\ calls' = [NoCalls EXCEPT !.transaction = 1]
    /\ leftAt' = "-"
    /\ UNCHANGED client

\* faulty variant: the failure of client.transaction() is not propagated and f runs
OpenCompleteIgnoreErr ==
    /\ pc = "opening"
    /\ \E o \in ClientTransaction(client) :
        /\ client' = o.client
        /\ IF o.panicked
           THEN /\ pc' = "panicked"
                /\ leftAt' = "opening"
                /\ UNCHANGED <<tx, openRes, result, calls>>
           ELSE /\ pc' = "op"
                /\ openRes' = o.res
                /\ tx' = IF o.res.tag = "Err" THEN DefaultPostgresTransaction ELSE o.tx
                /\ calls' = [calls EXCEPT !.f = @ + 1]
                /\ UNCHANGED <<result, leftAt>>
    /\ UNCHANGED <<opResult, resolveRes, invocations>>

\* faulty variant: a failed client.transaction() is tried a second time
OpenCompleteRetry ==
    /\ pc = "opening"
    /\ \E o \in ClientTransaction(client) :
        /\ client' = o.client
        /\ IF o.panicked
           THEN /\ pc' = "panicked"
                /\ leftAt' = "opening"
                /\ UNCHANGED <<tx, openRes, result, calls>>
           ELSE IF o.res.tag = "Err" /\ calls.transaction < 2
           THEN /\ calls' = [calls EXCEPT !.transaction = @ + 1]
                /\ UNCHANGED <<pc, tx, openRes, result, leftAt>>
           ELSE IF o.res.tag = "Err"
           THEN /\ pc' = "returned"
                /\ openRes' = o.res
                /\ result' = OuterErr(o.res.val)
                /\ UNCHANGED <<tx, calls, leftAt>>
           ELSE /\ pc' = "op"
                /\ openRes' = o.res
                /\ tx' = o.tx
                /\ calls' = [calls EXCEPT !.f = @ + 1]
                /\ UNCHANGED <<result, leftAt>>
    /\ UNCHANGED <<opResult, resolveRes, invocations>>

\* client.transaction().await? completes; on Ok, f(tx.as_ref()) is called
OpenComplete ==
    /\ pc = "opening"
    /\ \E o \in ClientTransaction(client) :
        /\ client' = o.client
        /\ IF o.panicked
           THEN /\ pc' = "panicked"
                /\ leftAt' = "opening"
                /\ UNCHANGED <<tx, openRes, result, calls>>
           ELSE IF o.res.tag = "Err"
           THEN /\ pc' = "returned"
                /\ openRes' = o.res
                /\ result' = OuterErr(o.res.val)
                /\ UNCHANGED <<tx, calls, leftAt>>
           ELSE /\ pc' = "op"
                /\ openRes' = o.res
                /\ tx' = o.tx
                /\ calls' = [calls EXCEPT !.f = @ + 1]
                /\ UNCHANGED <<result, leftAt>>
    /\ UNCHANGED <<opResult, resolveRes, invocations>>

\* faulty variant: an operation that returned Err is invoked a second time
OpReturnRetry ==
    /\ pc = "op"
    /\ \E r \in OpResults :
          IF r.tag = "Err" /\ calls.f < 2
          THEN /\ calls' = [calls EXCEPT !.f = @ + 1]
               /\ UNCHANGED <<pc, opResult>>
          ELSE /\ opResult' = r
               /\ pc' = "matched"
               /\ UNCHANGED calls
    /\ UNCHANGED <<client, openRes, tx, resolveRes, result, leftAt, invocations>>

\* f(tx.as_ref()).await completes with the operation's Result
OpReturn ==
    /\ pc = "op"
    /\ \E r \in OpResults : opResult' = r
    /\ pc' = "matched"
    /\ UNCHANGED <<client, openRes, tx, resolveRes, result, calls, leftAt, invocations>>

\* the operation panics: transactional() unwinds, tx is dropped
OpPanic ==
    /\ pc = "op"
    /\ pc' = "panicked"
    /\ leftAt' = "op"
    /\ UNCHANGED <<client, openRes, tx, opResult, resolveRes, result, calls, invocations>>

\* faulty variant: the two arms of the match are exchanged
ResolveSwapped ==
    /\ pc = "matched"
    /\ IF opResult.tag = "Err"
       THEN /\ pc' = "committing"
            /\ calls' = [calls EXCEPT !.commit = @ + 1]
       ELSE /\ pc' = "rollingback"
            /\ calls' = [calls EXCEPT !.rollback = @ + 1]
    /\ UNCHANGED <<client, openRes, tx, opResult, resolveRes, result, leftAt, invocations>>

\* faulty variant: the Err arm calls commit as the Ok arm does
ResolveAlwaysCommit ==
    /\ pc = "matched"
    /\ pc' = "committing"
    /\ calls' = [calls EXCEPT !.commit = @ + 1]
    /\ UNCHANGED <<client, openRes, tx, opResult, resolveRes, result, leftAt, invocations>>

\* faulty variant: the Err arm returns Ok(Err(err)) without rolling back
ResolveSkipRollback ==
    /\ pc = "matched"
    /\ IF opResult.tag = "Ok"
       THEN /\ pc' = "committing"
            /\ calls' = [calls EXCEPT !.commit = @ + 1]
            /\ UNCHANGED result
       ELSE /\ pc' = "returned"
            /\ result' = OuterOk(Err(opResult.val))
            /\ UNCHANGED calls
    /\ UNCHANGED <<client, openRes, tx, opResult, resolveRes, leftAt, invocations>>

\* the match on the operation's result: tx.commit() or tx.rollback() is called
Resolve ==
    /\ pc = "matched"
    /\ IF opResult.tag = "Ok"
       THEN /\ pc' = "committing"
            /\ calls' = [calls EXCEPT !.commit = @ + 1]
       ELSE /\ pc' = "rollingback"
            /\ calls' = [calls EXCEPT !.rollback = @ + 1]
    /\ UNCHANGED <<client, openRes, tx, opResult, resolveRes, result, leftAt, invocations>>

\* faulty variant: the result of tx.commit() is discarded (no `?`)
CommitCompleteIgnoreErr ==
    /\ pc = "committing"
    /\ \E o \in TxCommit(tx) :
        /\ tx' = o.tx
        /\ IF o.panicked
           THEN /\ pc' = "panicked"
                /\ leftAt' = "committing"
                /\ UNCHANGED <<resolveRes, result>>
           ELSE /\ pc' = "returned"
                /\ resolveRes' = o.res
                /\ result' = OuterOk(Ok(opResult.val))
                /\ UNCHANGED leftAt
    /\ UNCHANGED <<client, openRes, opResult, calls, invocations>>

\* tx.commit().await? completes; Ok(Ok(val))
CommitComplete ==
    /\ pc = "committing"
    /\ \E o \in TxCommit(tx) :
        /\ tx' = o.tx
        /\ IF o.panicked
           THEN /\ pc' = "panicked"
                /\ leftAt' = "committing"
                /\ UNCHANGED <<resolveRes, result>>
           ELSE /\ pc' = "returned"
                /\ resolveRes' = o.res
                /\ result' = IF o.res.tag = "Err" THEN OuterErr(o.res.val)
                                                 ELSE OuterOk(Ok(opResult.val))
                /\ UNCHANGED leftAt
    /\ UNCHANGED <<client, openRes, opResult, calls, invocations>>

\* faulty variant: the result of tx.rollback() is discarded (no `?`)
RollbackCompleteIgnoreErr ==
    /\ pc = "rollingback"
    /\ \E o \in TxRollback(tx) :
        /\ tx' = o.tx
        /\ IF o.panicked
           THEN /\ pc' = "panicked"
                /\ leftAt' = "rollingback"
                /\ UNCHANGED <<resolveRes, result>>
           ELSE /\ pc' = "returned"
                /\ resolveRes' = o.res
                /\ result' = OuterOk(Err(opResult.val))
                /\ UNCHANGED leftAt
    /\ UNCHANGED <<client, openRes, opResult, calls, invocations>>

\* tx.rollback().await? completes; Ok(Err(err))
RollbackComplete ==
    /\ pc = "rollingback"
    /\ \E o \in TxRollback(tx) :
        /\ tx' = o.tx
        /\ IF o.panicked
           THEN /\ pc' = "panicked"
                /\ leftAt' = "rollingback"
                /\ UNCHANGED <<resolveRes, result>>
           ELSE /\ pc' = "returned"
                /\ resolveRes' = o.res
                /\ result' = IF o.res.tag = "Err" THEN OuterErr(o.res.val)
                                                 ELSE OuterOk(Err(opResult.val))
                /\ UNCHANGED leftAt
    /\ UNCHANGED <<client, openRes, opResult, calls, invocations>>

\* the points where the future of transactional() can be pending: the
\* operation's own suspension, and the default client's I/O (a mock's
\* futures complete on their first poll)
Suspended ==
    \/ pc = "op"
    \/ pc \in {"opening", "committing", "rollingback"} /\ client.kind = "default"

\* the caller drops the pending future of transactional(): its locals are dropped
DropFuture ==
    /\ Suspended
    /\ pc' = "dropped"
    /\ leftAt' = pc
    /\ UNCHANGED <<client, openRes, tx, opResult, resolveRes, result, calls, invocations>>

TxNext ==
    \/ Transactional /\ UNCHANGED exceptTx
    \/ OpenComplete /\ UNCHANGED exceptTx
    \/ OpReturn /\ UNCHANGED exceptTx
    \/ OpPanic /\ UNCHANGED exceptTx
    \/ Resolve /\ UNCHANGED exceptTx
    \/ CommitComplete /\ UNCHANGED exceptTx
    \/ RollbackComplete /\ UNCHANGED exceptTx
    \/ DropFuture /\ UNCHANGED exceptTx

(***************************************************************************)
(* One Mock shared by threads through its clones.  The Arc<AtomicUsize>    *)
(* counters live in `heap`; a handle is the struct [arc, kind].            *)
(***************************************************************************)
Threads == 1 .. NThreads

\* the function of entry i of a scripted Mock, and of an always Mock: the
\* result tells which function ran, on which index and argument
EntryFn(i) == [a \in MockArgs |-> <<"entry", i, a>>]
AlwaysFn == [p \in Usize \X MockArgs |-> <<"always", p[1], p[2]>>]
Script(n) == [i \in 1 .. n |-> EntryFn(i - 1)]

\* the Mocks the constructors build
SharedMocks ==
    {MockNever, MockOnceWithArgs(EntryFn(0)), MockAlwaysWithArgs(AlwaysFn)}
    \cup {MockWith(Script(n)) : n \in 0 .. MaxEntries}

\* faulty variant: the clone gets a counter of its own, copied from the original
MockCloneDeep(m, hp) ==
    [mock |-> [arc |-> Len(hp) + 1, kind |-> m.kind], heap |-> Append(hp, hp[m.arc])]

\* faulty variant: the clone is built with an empty behaviour list
MockCloneEmpty(m, hp) ==
    [mock |-> [arc |-> m.arc, kind |-> KindCallSpecific(<<>>)], heap |-> hp]

\* Clone for Mock: the handle made from handle m, and the heap afterwards
MockClone(m, hp) == [mock |-> [arc |-> m.arc, kind |-> m.kind], heap |-> hp]

\* faulty variant: count() is one short of the counter
HandleCountStale(m, hp) == IF hp[m.arc] = 0 THEN 0 ELSE hp[m.arc] - 1

\* Mock::count and Mock::times through a handle
HandleCount(m, hp) == hp[m.arc]
\* faulty variant: times() is the unbounded sentinel for every kind
HandleTimesUnbounded(m) == UsizeMax

HandleTimes(m) == IF m.kind.tag = "Always" THEN UsizeMax ELSE Len(m.kind.fns)

Idle == [pc |-> "idle", h |-> 0, idx |-> 0, args |-> NoVal, pos |-> 0]

MockInit ==
    /\ \E m \in SharedMocks :
          /\ heap = <<m.idx>>
          /\ handles = <<[arc |-> 1, kind |-> m.kind]>>
    /\ thr = [t \in Threads |-> Idle]
    /\ ncalls = [t \in Threads |-> 0]
    /\ history = <<>>

\* thread t enters call_with_args(a) on handle h: the fetch_add claims an index
ThreadClaim(t, h, a) ==
    /\ thr[t].pc = "idle"
    /\ Len(history) < MaxCalls
    /\ LET arc == handles[h].arc
           old == heap[arc]
       IN /\ heap' = [heap EXCEPT ![arc] = FetchAdd(old)]
          /\ thr' = [thr EXCEPT ![t] = [pc |-> "claimed", h |-> h, idx |-> old,
                                        args |-> a, pos |-> Len(history) + 1]]
          /\ history' = Append(history, [idx |-> old, args |-> a,
                                         status |-> "running", val |-> NoVal])
    /\ ncalls' = [ncalls EXCEPT ![t] = @ + 1]
    /\ UNCHANGED handles

\* thread t dispatches on the kind: the function runs and returns, or the call panics
ThreadDispatch(t) ==
    /\ thr[t].pc = "claimed"
    /\ LET out == Dispatch(handles[thr[t].h].kind, thr[t].idx, thr[t].args)
       IN /\ history' = [history EXCEPT ![thr[t].pos] =
                            [@ EXCEPT !.status = IF out.panicked THEN "panicked" ELSE "returned",
                                      !.val = out.val]]
          /\ thr' = [thr EXCEPT ![t] = IF out.panicked THEN [Idle EXCEPT !.pc = "panicked"]
                                                       ELSE Idle]
    /\ UNCHANGED <<heap, handles, ncalls>>

\* a handle is cloned
CloneHandle(h) ==
    /\ Len(handles) < MaxHandles
    /\ LET c == MockClone(handles[h], heap)
       IN /\ handles' = Append(handles, c.mock)
          /\ heap' = c.heap
    /\ UNCHANGED <<thr, ncalls, history>>

MockNext ==
    \/ \E t \in Threads, h \in 1 .. Len(handles), a \in MockArgs :
          ThreadClaim(t, h, a) /\ UNCHANGED exceptMock
    \/ \E t \in Threads : ThreadDispatch(t) /\ UNCHANGED exceptMock
    \/ \E h \in 1 .. Len(handles) : CloneHandle(h) /\ UNCHANGED exceptMock

\* the other component at rest
TxIdle ==
    /\ client = DefaultPostgresClient
    /\ pc = "idle"
    /\ tx = NoTx
    /\ openRes = NoResult
    /\ opResult = NoResult
    /\ resolveRes = NoResult
    /\ result = NoOuter
    /\ calls = NoCalls
    /\ leftAt = "-"
    /\ invocations = 0

MockIdle ==
    /\ heap = <<0>>
    /\ handles = <<[arc |-> 1, kind |-> MockNever.kind]>>
    /\ thr = [t \in Threads |-> Idle]
    /\ ncalls = [t \in Threads |-> 0]
    /\ history = <<>>

(***************************************************************************)
(* One always Mock called by a single caller, for longer than the range of *)
(* its counter.                                                            *)
(***************************************************************************)
SeqInit ==
    /\ rec = MockAlwaysWithArgs(AlwaysFn)
    /\ seqHistory = <<>>

\* the caller calls call_with_args(a) and the call returns or panics
SeqCall(a) ==
    /\ Len(seqHistory) < UsizeModulus + ExtraCalls
    /\ LET r == CallWithArgs(rec, a)
       IN /\ rec' = r.mock
          /\ seqHistory' = Append(seqHistory, [idx |-> rec.idx, args |-> a, out |-> r.out])

SeqNext == \E a \in MockArgs : SeqCall(a) /\ UNCHANGED exceptSeq

SeqIdle ==
    /\ rec = MockNever
    /\ seqHistory = <<>>

(***************************************************************************)
(* DefaultEnv (src/src/env.rs).  A String is a sequence of characters.     *)
(***************************************************************************)
\* the characters the values of the variable are made of
EnvChars == {"0", "1", "2", "5", "6", "+", "-", " ", ",", "a"}
\* values longer than MaxStrLen that are tried as well
LongStrs ==
    {<<"t", "r", "u", "e">>, <<"f", "a", "l", "s", "e">>, <<"T", "r", "u", "e">>,
     <<"t", "r", "u", "e", " ">>, <<"a", " ", ",", " ", "2">>}
EnvStrs == UNION {[1 .. n -> EnvChars] : n \in 0 .. MaxStrLen} \cup LongStrs

\* Result<String, VarError> of VarFnWrapper::var
VarOk(s) == [tag |-> "Ok", val |-> s]
VarNotPresent == [tag |-> "NotPresent", val |-> <<>>]
VarNotUnicode == [tag |-> "NotUnicode", val |-> <<>>]
VarResults == {VarNotPresent, VarNotUnicode} \cup {VarOk(s) : s \in EnvStrs}

\* Option<EnvParseResult<T>>, Option<String>, Option<Vec<String>>
None == [tag |-> "None"]
Some(v) == [tag |-> "Some", val |-> v]
ParseOk(v) == [tag |-> "Ok", val |-> v]
ParseErr == [tag |-> "Err"]

\* str::trim, with the space as the white space
WhiteSpace == {" "}
RECURSIVE TrimStart(_)
TrimStart(s) == IF s # <<>> /\ Head(s) \in WhiteSpace THEN TrimStart(Tail(s)) ELSE s
RECURSIVE TrimEnd(_)
TrimEnd(s) ==
    IF s # <<>> /\ s[Len(s)] \in WhiteSpace THEN TrimEnd(SubSeq(s, 1, Len(s) - 1)) ELSE s
Trim(s) == TrimEnd(TrimStart(s))

\* str::split(sep): the pieces between the matches of sep found from the
\* left; the empty sep matches before and after every character
StartsWith(s, p) == Len(p) <= Len(s) /\ SubSeq(s, 1, Len(p)) = p
RECURSIVE SplitFrom(_, _, _)
SplitFrom(piece, s, sep) ==
    IF s = <<>> THEN <<piece>>
    ELSE IF StartsWith(s, sep)
         THEN <<piece>> \o SplitFrom(<<>>, SubSeq(s, Len(sep) + 1, Len(s)), sep)
         ELSE SplitFrom(Append(piece, Head(s)), Tail(s), sep)
Split(s, sep) ==
    IF sep = <<>>
    THEN <<<<>>>> \o [i \in 1 .. Len(s) |-> <<s[i]>>] \o <<<<>>>>
    ELSE SplitFrom(<<>>, s, sep)

\* the decimal digits
DigitChars == <<"0", "1", "2", "3", "4", "5", "6", "7", "8", "9">>
IsDigit(c) == \E d \in 1 .. 10 : DigitChars[d] = c
DigitVal(c) == (CHOOSE d \in 1 .. 10 : DigitChars[d] = c) - 1
RECURSIVE Horner(_, _)
Horner(acc, ds) == IF ds = <<>> THEN acc ELSE Horner(acc * 10 + DigitVal(Head(ds)), Tail(ds))

\* the ranges of u8 and i8
U8Max == 255
I8Min == -128
I8Max == 127

\* <integer>::from_str: an optional sign ('-' for a signed type only), then
\* one digit or more, and the value has to be in the range of the type
IntFromStr(s, signed, lo, hi) ==
    IF s = <<>> THEN ParseErr
    ELSE LET hasSign == Head(s) = "+" \/ (signed /\ Head(s) = "-")
             digits == IF hasSign THEN Tail(s) ELSE s
         IN IF digits = <<>> \/ \E i \in 1 .. Len(digits) : ~IsDigit(digits[i])
            THEN ParseErr
            ELSE LET abs == Horner(0, digits)
                     v == IF Head(s) = "-" THEN 0 - abs ELSE abs
                 IN IF v < lo \/ v > hi THEN ParseErr ELSE ParseOk(v)

\* bool::from_str
BoolFromStr(s) ==
    IF s = <<"t", "r", "u", "e">> THEN ParseOk(TRUE)
    ELSE IF s = <<"f", "a", "l", "s", "e">> THEN ParseOk(FALSE)
    ELSE ParseErr

\* char::from_str: exactly one character
CharFromStr(s) == IF Len(s) = 1 THEN ParseOk(s[1]) ELSE ParseErr

\* NonZeroU8::from_str
NonZeroU8FromStr(s) ==
    LET r == IntFromStr(s, FALSE, 0, U8Max)
    IN IF r.tag = "Ok" /\ r.val = 0 THEN ParseErr ELSE r

\* PathBuf::from_str never fails
PathBufFromStr(s) == ParseOk(s)

\* the typed getters modelled, by target type
Getters == {"bool", "char", "u8", "i8", "non_zero_u8", "path_buf"}
Fallible == Getters \ {"path_buf"}

\* val.parse::<T>()
FromStr(ty, s) ==
    CASE ty = "bool" -> BoolFromStr(s)
      [] ty = "char" -> CharFromStr(s)
      [] ty = "u8" -> IntFromStr(s, FALSE, 0, U8Max)
      [] ty = "i8" -> IntFromStr(s, TRUE, I8Min, I8Max)
      [] ty = "non_zero_u8" -> NonZeroU8FromStr(s)
      [] ty = "path_buf" -> PathBufFromStr(s)

\* a DefaultEnv over a wrapper that answers `answer` and counts its calls
DefaultEnv(answer) == [answer |-> answer, reads |-> 0]

\* faulty variant: the variable is looked up for presence, then read again
EnvRawTwice(e) == [env |-> [e EXCEPT !.reads = @ + 2], res |-> e.answer]

\* DefaultEnv::raw: one call of the wrapper's var
EnvRaw(e) == [env |-> [e EXCEPT !.reads = @ + 1], res |-> e.answer]

\* faulty variant: a value that does not parse is reported as an absent variable
EnvVarErrAsNone(e, ty) ==
    LET r == EnvRaw(e)
    IN [env |-> r.env,
        out |-> IF r.res.tag = "Ok" /\ FromStr(ty, r.res.val).tag = "Ok"
                THEN Some(FromStr(ty, r.res.val))
                ELSE None]

\* DefaultEnv::var::<T>
EnvVar(e, ty) ==
    LET r == EnvRaw(e)
    IN [env |-> r.env,
        out |-> IF r.res.tag = "Ok" THEN Some(FromStr(ty, r.res.val)) ELSE None]

\* DefaultEnv::string
EnvString(e) ==
    LET r == EnvRaw(e)
    IN [env |-> r.env, out |-> IF r.res.tag = "Ok" THEN Some(r.res.val) ELSE None]

\* faulty variant: the items are not trimmed
EnvStringsNoItemTrim(e, sep) ==
    LET r == EnvString(e)
    IN [env |-> r.env,
        out |-> IF r.out.tag = "None" THEN None
                ELSE LET val == Trim(r.out.val)
                     IN IF val = <<>> THEN Some(<<>>) ELSE Some(Split(val, sep))]

\* faulty variant: the emptiness test is skipped
EnvStringsNoEmptyTest(e, sep) ==
    LET r == EnvString(e)
    IN [env |-> r.env,
        out |-> IF r.out.tag = "None" THEN None
                ELSE LET val == Trim(r.out.val)
                         items == Split(val, sep)
                     IN Some([i \in 1 .. Len(items) |-> Trim(items[i])])]

\* DefaultEnv::strings
EnvStrings(e, sep) ==
    LET r == EnvString(e)
    IN [env |-> r.env,
        out |-> IF r.out.tag = "None" THEN None
                ELSE LET val == Trim(r.out.val)
                     IN IF val = <<>> THEN Some(<<>>)
                        ELSE LET items == Split(val, sep)
                             IN Some([i \in 1 .. Len(items) |-> Trim(items[i])])]

\* the separators tried
Seps == {<<",">>, <<" ">>, <<",", " ">>, <<>>}

NoGet == [n |-> 0, getter |-> "-", sep |-> <<>>, out |-> None]

EnvInit ==
    /\ env \in {DefaultEnv(a) : a \in VarResults}
    /\ envOut = NoGet

\* a typed getter is called: env.bool(key), env.u8(key), ...
EnvGetTyped(ty) ==
    /\ envOut.n < MaxGets
    /\ LET r == EnvVar(env, ty)
       IN /\ env' = r.env
          /\ envOut' = [n |-> envOut.n + 1, getter |-> ty, sep |-> <<>>, out |-> r.out]

\* env.string(key)
EnvGetString ==
    /\ envOut.n < MaxGets
    /\ LET r == EnvString(env)
       IN /\ env' = r.env
          /\ envOut' = [n |-> envOut.n + 1, getter |-> "string", sep |-> <<>>, out |-> r.out]

\* env.strings(key, sep)
EnvGetStrings(sep) ==
    /\ envOut.n < MaxGets
    /\ LET r == EnvStrings(env, sep)
       IN /\ env' = r.env
          /\ envOut' = [n |-> envOut.n + 1, getter |-> "strings", sep |-> sep, out |-> r.out]

EnvNext ==
    \/ \E ty \in Getters : EnvGetTyped(ty) /\ UNCHANGED exceptEnv
    \/ EnvGetString /\ UNCHANGED exceptEnv
    \/ \E sep \in Seps : EnvGetStrings(sep) /\ UNCHANGED exceptEnv

EnvIdle ==
    /\ env = DefaultEnv(VarNotPresent)
    /\ envOut = NoGet

(***************************************************************************)
(* DefaultHttpServer (src/src/http.rs).                                    *)
(***************************************************************************)
\* the status of every response, and the capacity of the request channel
StatusOk == 200
ChannelCapacity == 1

\* maps (HashMap) as functions
EmptyMap == [k \in {} |-> <<>>]
Insert(m, k, v) == [x \in DOMAIN m \cup {k} |-> IF x = k THEN v ELSE m[x]]

\* HttpResponse, and JSON values with their serialization
JsonString(s) == <<"string", s>>
JsonNull == <<"null">>
JsonValues == {JsonString("val"), JsonNull}
ToJson(v) == IF v[1] = "string" THEN <<"\"", v[2], "\"">> ELSE <<"null">>
RespEmpty == [kind |-> "Empty", val |-> <<>>]
RespHtml(html) == [kind |-> "Html", val |-> html]
RespJson(json) == [kind |-> "Json", val |-> json]
RespText(text) == [kind |-> "Text", val |-> text]
HttpResponses ==
    {RespEmpty, RespHtml(<<"<head></head>">>), RespText(<<"val">>)}
    \cup {RespJson(j) : j \in JsonValues}

\* faulty variant: the configured response is ignored
IntoResponseEmpty(r) == [status |-> StatusOk, ctype |-> "", body |-> <<>>]

\* the match on resp: what into_response() makes of the configured response
IntoResponse(r) ==
    CASE r.kind = "Empty" -> [status |-> StatusOk, ctype |-> "", body |-> <<>>]
      [] r.kind = "Html" -> [status |-> StatusOk, ctype |-> "text/html", body |-> r.val]
      [] r.kind = "Json" -> [status |-> StatusOk, ctype |-> "application/json", body |-> ToJson(r.val)]
      [] r.kind = "Text" -> [status |-> StatusOk, ctype |-> "text/plain", body |-> r.val]
NoResponse == [status |-> 0, ctype |-> "", body |-> <<>>]

\* header values: to_str() fails on a value that is not visible ASCII
VisibleAscii == {"v", "w"}
HeaderVals == VisibleAscii \cup {"\\xff"}
Decodable(v) == v \in VisibleAscii

\* the requests the clients send: method, path and query of the URI, the
\* header lines in their order, body
WireRequests ==
    {[method |-> "GET", path |-> "/a/b", query |-> <<<<"foo", "bar1">>, <<"foo", "bar2">>>>,
      headers |-> <<<<"accept", "v">>, <<"host", "w">>>>, body |-> <<"a", "b", "c">>],
     [method |-> "POST", path |-> "/", query |-> <<<<"foo", "x">>, <<"k", "y">>, <<"foo", "y">>>>,
      headers |-> <<<<"accept", "v">>, <<"host", "w">>, <<"accept", "w">>>>, body |-> <<>>],
     [method |-> "GET", path |-> "/c", query |-> <<>>,
      headers |-> <<<<"x-bin", "\\xff">>, <<"host", "w">>>>, body |-> <<"b">>]}

\* HeaderMap::into_iter: the values grouped by name, the names in the order
\* of their first line; the name comes with the first value of a group only
RECURSIVE NamesInOrder(_, _)
NamesInOrder(seen, hs) ==
    IF hs = <<>> THEN seen
    ELSE IF \E i \in 1 .. Len(seen) : seen[i] = Head(hs)[1]
         THEN NamesInOrder(seen, Tail(hs))
         ELSE NamesInOrder(Append(seen, Head(hs)[1]), Tail(hs))
RECURSIVE ValuesOf(_, _)
ValuesOf(n, hs) ==
    IF hs = <<>> THEN <<>>
    ELSE IF Head(hs)[1] = n THEN <<Head(hs)[2]>> \o ValuesOf(n, Tail(hs))
         ELSE ValuesOf(n, Tail(hs))
Group(n, vals) ==
    [i \in 1 .. Len(vals) |-> [name |-> IF i = 1 THEN <<n>> ELSE <<>>, val |-> vals[i]]]
RECURSIVE Groups(_, _)
Groups(names, hs) ==
    IF names = <<>> THEN <<>>
    ELSE Group(Head(names), ValuesOf(Head(names), hs)) \o Groups(Tail(names), hs)
HeaderMapIntoIter(hs) == Groups(NamesInOrder(<<>>, hs), hs)

\* faulty variant: a value that does not decode is kept as it is
ReqHeadersKeepRaw(acc, it) ==
    LET names == {it[i].name[1] : i \in {j \in 1 .. Len(it) : it[j].name # <<>>}}
    IN [n \in names |-> it[CHOOSE i \in 1 .. Len(it) : it[i].name = <<n>>].val]

\* the loop over the headers: an item without name and a value that does
\* not decode are skipped
RECURSIVE ReqHeaders(_, _)
ReqHeaders(acc, it) ==
    IF it = <<>> THEN acc
    ELSE LET e == Head(it)
         IN IF e.name = <<>> THEN ReqHeaders(acc, Tail(it))
            ELSE IF ~Decodable(e.val) THEN ReqHeaders(acc, Tail(it))
            ELSE ReqHeaders(Insert(acc, e.name[1], e.val), Tail(it))

\* faulty variant: a key that comes again replaces its values
ReqQueryLastWins(acc, ps) ==
    [k \in {ps[i][1] : i \in 1 .. Len(ps)} |->
        <<ps[CHOOSE i \in 1 .. Len(ps) :
                ps[i][1] = k /\ \A j \in i + 1 .. Len(ps) : ps[j][1] # k][2]>>]

\* the fold over the query pairs
RECURSIVE ReqQuery(_, _)
ReqQuery(acc, ps) ==
    IF ps = <<>> THEN acc
    ELSE LET k == Head(ps)[1]
             old == IF k \in DOMAIN acc THEN acc[k] ELSE <<>>
         IN ReqQuery(Insert(acc, k, Append(old, Head(ps)[2])), Tail(ps))

\* the HttpRequest the handler builds
BuildRequest(w) ==
    [body |-> w.body,
     headers |-> ReqHeaders(EmptyMap, HeaderMapIntoIter(w.headers)),
     method |-> w.method,
     path |-> w.path,
     query |-> ReqQuery(EmptyMap, w.query)]

Reqs == 1 .. MaxReqs
NoWire == [method |-> "", path |-> "", query |-> <<>>, headers |-> <<>>, body |-> <<>>]
Unsent == [st |-> "unsent", wire |-> NoWire, at |-> "-", sendRes |-> "-", response |-> NoResponse]

\* the receiver of the request channel is alive: it is a field of the
\* handle, which stop() keeps until it returns
RxOpen == owner \in {"held", "stopping"}
\* stop_rx.await has completed: stop_tx was used or dropped
Signalled == owner # "held"
\* the handlers that have been entered and have not responded
InFlightHandlers == {r \in Reqs : reqs[r].st \in {"sending", "sent"}}

\* with_response(addr, resp) has returned Ok: the server task is spawned
HttpInit ==
    /\ resp \in HttpResponses
    /\ owner = "held"
    /\ server = "running"
    /\ chan = <<>>
    /\ waiters = <<>>
    /\ reqs = [r \in Reqs |-> Unsent]
    /\ arrived = <<>>
    /\ delivered = <<>>

\* a client sends request r: it connects to the listener, if there is one
ClientSend(r, w) ==
    /\ reqs[r].st = "unsent"
    /\ r > 1 => reqs[r - 1].st # "unsent"
    /\ reqs' = [reqs EXCEPT ![r] = [@ EXCEPT !.st = IF server = "running" THEN "connecting" ELSE "failed",
                                             !.wire = w,
                                             !.at = owner]]
    /\ UNCHANGED <<resp, owner, server, chan, waiters, arrived, delivered>>

\* the connection of r was not accepted before the listener was closed
ConnFail(r) ==
    /\ reqs[r].st = "connecting"
    /\ server # "running"
    /\ reqs' = [reqs EXCEPT ![r].st = "failed"]
    /\ UNCHANGED <<resp, owner, server, chan, waiters, arrived, delivered>>

\* faulty variant: the handler does not put the request on the channel
HandlerRunNoSend(r) ==
    /\ reqs[r].st = "connecting"
    /\ server = "running"
    /\ arrived' = Append(arrived, r)
    /\ reqs' = [reqs EXCEPT ![r] = [@ EXCEPT !.st = "sent", !.sendRes = "err"]]
    /\ UNCHANGED <<chan, waiters>>
    /\ UNCHANGED <<resp, owner, server, delivered>>

\* the server accepts the connection of r and the fallback handler runs up
\* to req_tx.send(req): the request is built and put on the channel, or the
\* send waits for capacity, or it fails at once on a closed channel
HandlerRun(r) ==
    /\ reqs[r].st = "connecting"
    /\ server = "running"
    /\ arrived' = Append(arrived, r)
    /\ IF ~RxOpen
       THEN /\ reqs' = [reqs EXCEPT ![r] = [@ EXCEPT !.st = "sent", !.sendRes = "err"]]
            /\ UNCHANGED <<chan, waiters>>
       ELSE IF Len(chan) < ChannelCapacity /\ waiters = <<>>
       THEN /\ chan' = Append(chan, [id |-> r, req |-> BuildRequest(reqs[r].wire)])
            /\ reqs' = [reqs EXCEPT ![r] = [@ EXCEPT !.st = "sent", !.sendRes = "ok"]]
            /\ UNCHANGED waiters
       ELSE /\ waiters' = Append(waiters, r)
            /\ reqs' = [reqs EXCEPT ![r].st = "sending"]
            /\ UNCHANGED chan
    /\ UNCHANGED <<resp, owner, server, delivered>>

\* the send of r, first of the waiting ones, gets the capacity a recv freed
SendResume(r) ==
    /\ waiters # <<>>
    /\ r = Head(waiters)
    /\ RxOpen
    /\ Len(chan) < ChannelCapacity
    /\ chan' = Append(chan, [id |-> r, req |-> BuildRequest(reqs[r].wire)])
    /\ waiters' = Tail(waiters)
    /\ reqs' = [reqs EXCEPT ![r] = [@ EXCEPT !.st = "sent", !.sendRes = "ok"]]
    /\ UNCHANGED <<resp, owner, server, arrived, delivered>>

\* the waiting send of r fails: the receiver was dropped
SendFail(r) ==
    /\ \E i \in 1 .. Len(waiters) : waiters[i] = r
    /\ ~RxOpen
    /\ waiters' = SelectSeq(waiters, LAMBDA x : x # r)
    /\ reqs' = [reqs EXCEPT ![r] = [@ EXCEPT !.st = "sent", !.sendRes = "err"]]
    /\ UNCHANGED <<resp, owner, server, chan, arrived, delivered>>

\* faulty variant: the response is produced without awaiting the send
HandlerRespondEarly(r) ==
    /\ reqs[r].st \in {"sending", "sent"}
    /\ reqs' = [reqs EXCEPT ![r] = [@ EXCEPT !.st = "responded", !.response = IntoResponse(resp)]]
    /\ waiters' = SelectSeq(waiters, LAMBDA x : x # r)
    /\ UNCHANGED <<resp, owner, server, chan, arrived, delivered>>

\* the send of r has completed (its result is dropped by .ok()): the
\* handler returns the response and the client receives it
HandlerRespond(r) ==
    /\ reqs[r].st = "sent"
    /\ reqs' = [reqs EXCEPT ![r] = [@ EXCEPT !.st = "responded", !.response = IntoResponse(resp)]]
    /\ UNCHANGED waiters
    /\ UNCHANGED <<resp, owner, server, chan, arrived, delivered>>

\* faulty variant: recv leaves the request on the channel
HttpNextRequestPeek ==
    /\ owner = "held"
    /\ chan # <<>>
    /\ Len(delivered) < MaxReqs
    /\ delivered' = Append(delivered, Head(chan))
    /\ UNCHANGED chan
    /\ UNCHANGED <<resp, owner, server, waiters, reqs, arrived>>

\* next() returns: req_rx.recv() takes the oldest request of the channel
\* (with the channel empty, next() waits)
HttpNextRequest ==
    /\ owner = "held"
    /\ chan # <<>>
    /\ delivered' = Append(delivered, Head(chan))
    /\ chan' = Tail(chan)
    /\ UNCHANGED <<resp, owner, server, waiters, reqs, arrived>>

\* stop(self) is called: stop_tx.send(()), then the server task is awaited
StopCall ==
    /\ owner = "held"
    /\ owner' = "stopping"
    /\ UNCHANGED <<resp, server, chan, waiters, reqs, arrived, delivered>>

\* faulty variant: stop() returns without awaiting the server task
StopReturnNoJoin ==
    /\ owner = "stopping"
    /\ owner' = "stopped"
    /\ chan' = <<>>
    /\ UNCHANGED <<resp, server, waiters, reqs, arrived, delivered>>

\* self.server.await completes and stop() returns: the rest of the handle,
\* req_rx with the requests it holds, is dropped
StopReturn ==
    /\ owner = "stopping"
    /\ server = "finished"
    /\ owner' = "stopped"
    /\ chan' = <<>>
    /\ UNCHANGED <<resp, server, waiters, reqs, arrived, delivered>>

\* the handle is dropped without stop(): req_rx and stop_tx are dropped,
\* the server task is detached
DropHandle ==
    /\ owner = "held"
    /\ owner' = "dropped"
    /\ chan' = <<>>
    /\ UNCHANGED <<resp, server, waiters, reqs, arrived, delivered>>

\* the server task sees the shutdown signal: the listener is closed
ServerShutdown ==
    /\ server = "running"
    /\ Signalled
    /\ server' = "draining"
    /\ UNCHANGED <<resp, owner, chan, waiters, reqs, arrived, delivered>>

\* faulty variant: the shutdown does not wait for the handlers in flight
ServerFinishAbrupt ==
    /\ server = "draining"
    /\ server' = "finished"
    /\ UNCHANGED <<resp, owner, chan, waiters, reqs, arrived, delivered>>

\* the graceful shutdown completes: no handler is in flight any more
ServerFinish ==
    /\ server = "draining"
    /\ InFlightHandlers = {}
    /\ server' = "finished"
    /\ UNCHANGED <<resp, owner, chan, waiters, reqs, arrived, delivered>>

HttpNext ==
    \/ \E r \in Reqs, w \in WireRequests : ClientSend(r, w) /\ UNCHANGED exceptHttp
    \/ \E r \in Reqs : ConnFail(r) /\ UNCHANGED exceptHttp
    \/ \E r \in Reqs : HandlerRun(r) /\ UNCHANGED exceptHttp
    \/ \E r \in Reqs : SendResume(r) /\ UNCHANGED exceptHttp
    \/ \E r \in Reqs : SendFail(r) /\ UNCHANGED exceptHttp
    \/ \E r \in Reqs : HandlerRespond(r) /\ UNCHANGED exceptHttp
    \/ HttpNextRequest /\ UNCHANGED exceptHttp
    \/ StopCall /\ UNCHANGED exceptHttp
    \/ StopReturn /\ UNCHANGED exceptHttp
    \/ DropHandle /\ UNCHANGED exceptHttp
    \/ ServerShutdown /\ UNCHANGED exceptHttp
    \/ ServerFinish /\ UNCHANGED exceptHttp

\* what the runtime and the channel guarantee: a task that can run does
\* run; the clients and the holder of the handle are free to do nothing
HttpFairness ==
    /\ WF_vars(\E r \in Reqs : ConnFail(r) /\ UNCHANGED exceptHttp)
    /\ WF_vars(\E r \in Reqs : HandlerRun(r) /\ UNCHANGED exceptHttp)
    /\ WF_vars(\E r \in Reqs : SendResume(r) /\ UNCHANGED exceptHttp)
    /\ WF_vars(\E r \in Reqs : SendFail(r) /\ UNCHANGED exceptHttp)
    /\ WF_vars(\E r \in Reqs : HandlerRespond(r) /\ UNCHANGED exceptHttp)
    /\ WF_vars(StopReturn /\ UNCHANGED exceptHttp)
    /\ WF_vars(ServerShutdown /\ UNCHANGED exceptHttp)
    /\ WF_vars(ServerFinish /\ UNCHANGED exceptHttp)

HttpIdle ==
    /\ resp = RespEmpty
    /\ owner = "held"
    /\ server = "running"
    /\ chan = <<>>
    /\ waiters = <<>>
    /\ reqs = [r \in Reqs |-> Unsent]
    /\ arrived = <<>>
    /\ delivered = <<>>

TxSpecInit == TxInit /\ MockIdle /\ SeqIdle /\ EnvIdle /\ HttpIdle
TxSpec == TxSpecInit /\ [][TxNext]_vars

MockSpecInit == MockInit /\ TxIdle /\ SeqIdle /\ EnvIdle /\ HttpIdle
MockSpec == MockSpecInit /\ [][MockNext]_vars

SeqSpecInit == SeqInit /\ TxIdle /\ MockIdle /\ EnvIdle /\ HttpIdle
SeqSpec == SeqSpecInit /\ [][SeqNext]_vars

EnvSpecInit == EnvInit /\ TxIdle /\ MockIdle /\ SeqIdle /\ HttpIdle
EnvSpec == EnvSpecInit /\ [][EnvNext]_vars

HttpSpecInit == HttpInit /\ TxIdle /\ MockIdle /\ SeqIdle /\ EnvIdle
HttpSpec == HttpSpecInit /\ [][HttpNext]_vars
HttpFairSpec == HttpSpecInit /\ [][HttpNext]_vars /\ HttpFairness

(***************************************************************************)
(* Properties of transactional().                                          *)
(***************************************************************************)
OpReturned == opResult.tag # "None"
Opened == openRes.tag = "Ok"
CommitAttempted == calls.commit > 0
RollbackAttempted == calls.rollback > 0

\* C1: once the transaction was opened and the operation has returned (and
\* the match on its result is taken), commit is attempted iff the operation
\* returned Ok and rollback iff it returned Err; never both, and neither
\* before the operation has returned.
C1_CommitIffOk ==
    /\ ~(CommitAttempted /\ RollbackAttempted)
    /\ (CommitAttempted \/ RollbackAttempted) => (Opened /\ OpReturned)
    /\ (Opened /\ OpReturned /\ pc # "matched") =>
          /\ CommitAttempted <=> opResult.tag = "Ok"
          /\ RollbackAttempted <=> opResult.tag = "Err"

C1_Witness ==
    /\ pc = "returned"
    /\ opResult.tag = "Err"
    /\ calls.rollback = 1
    /\ calls.commit = 0

\* C2: the step after the operation's return is the commit or the rollback
\* attempt, and no invocation ends (returns or unwinds) after the operation
\* returned with neither commit nor rollback attempted.
C2_ResolvedAfterOp ==
    /\ [](pc \in Terminal /\ Opened /\ OpReturned
            => CommitAttempted \/ RollbackAttempted)
    /\ [][pc = "matched" =>
            /\ pc' \in {"committing", "rollingback"}
            /\ calls'.commit + calls'.rollback = 1]_vars

C2_Witness ==
    /\ pc = "returned"
    /\ Opened
    /\ opResult.tag = "Err"
    /\ result.tag = "Ok"

\* C3: open succeeded, the operation returned Ok(v) and commit returned Ok:
\* the call returns Ok(Ok(v)), commit was called once and rollback never
\* (on a mock transaction commit.count() = 1 and rollback.count() = 0).
C3_SuccessPath ==
    (pc = "returned" /\ Opened /\ opResult.tag = "Ok" /\ resolveRes.tag = "Ok") =>
        /\ result = OuterOk(Ok(opResult.val))
        /\ calls.commit = 1
        /\ calls.rollback = 0
        /\ tx.kind = "mock" => Count(tx.commit) = 1 /\ Count(tx.rollback) = 0

C3_Witness ==
    /\ pc = "returned"
    /\ tx.kind = "mock"
    /\ result = OuterOk(Ok("v2"))
    /\ Count(tx.commit) = 1

\* C4: open succeeded, the operation returned Err(e) and rollback returned
\* Ok: the call returns Ok(Err(e)), rollback was called once and commit never.
C4_OperationFailurePath ==
    (pc = "returned" /\ Opened /\ opResult.tag = "Err" /\ resolveRes.tag = "Ok") =>
        /\ result = OuterOk(Err(opResult.val))
        /\ calls.rollback = 1
        /\ calls.commit = 0
        /\ tx.kind = "mock" => Count(tx.rollback) = 1 /\ Count(tx.commit) = 0

C4_Witness ==
    /\ pc = "returned"
    /\ tx.kind = "mock"
    /\ result = OuterOk(Err("e2"))
    /\ Count(tx.rollback) = 1

\* C5: when client.transaction() fails, the call has returned the outer Err
\* with that failure at once, the operation was not invoked and neither
\* commit nor rollback was attempted.
C5_OpenFailurePath ==
    openRes.tag = "Err" =>
        /\ pc = "returned"
        /\ result = OuterErr(openRes.val)
        /\ calls.f = 0
        /\ calls.commit = 0
        /\ calls.rollback = 0
        /\ tx = NoTx

C5_Witness ==
    /\ openRes = PgErr("x2")
    /\ pc = "returned"
    /\ result = OuterErr("x2")

\* C6: the operation returned Ok(v) and commit failed: the call returns the
\* outer Err carrying commit's failure, never Ok(Ok(v)), and rollback is not
\* attempted.
C6_CommitFailurePath ==
    (opResult.tag = "Ok" /\ CommitAttempted /\ resolveRes.tag = "Err") =>
        /\ pc = "returned"
        /\ result = OuterErr(resolveRes.val)
        /\ result # OuterOk(Ok(opResult.val))
        /\ calls.rollback = 0

C6_Witness ==
    /\ pc = "returned"
    /\ opResult.tag = "Ok"
    /\ calls.commit = 1
    /\ resolveRes = PgErr("x1")
    /\ result = OuterErr("x1")

\* C7: the operation returned Err(e) and rollback failed: the call returns
\* the outer Err carrying rollback's failure, and e is not in the result.
C7_RollbackFailurePath ==
    (opResult.tag = "Err" /\ RollbackAttempted /\ resolveRes.tag = "Err") =>
        /\ pc = "returned"
        /\ result = OuterErr(resolveRes.val)
        /\ result.inner = NoResult
        /\ result.err \notin OpErrs

C7_Witness ==
    /\ pc = "returned"
    /\ opResult = Err("e1")
    /\ calls.rollback = 1
    /\ resolveRes = PgErr("x2")
    /\ result = OuterErr("x2")

\* C8: when the invocation is cancelled while the operation is running (its
\* future is dropped, or the operation unwinds), rollback has been attempted
\* by the time the cancellation has propagated.
C8_RollbackOnCancel ==
    (pc \in {"dropped", "panicked"} /\ leftAt = "op") => RollbackAttempted

MachineryFailed == openRes.tag = "Err" \/ resolveRes.tag = "Err"
MachineryError == IF openRes.tag = "Err" THEN openRes.val ELSE resolveRes.val

\* the outer Err: open, commit or rollback failed, and that failure is returned
OutcomeMachineryFailed ==
    /\ result.tag = "Err"
    /\ MachineryFailed
    /\ result = OuterErr(MachineryError)

\* the outer Ok: what the operation produced, with the transaction committed
\* (inner Ok) or rolled back (inner Err) successfully
OutcomeOperation ==
    /\ result.tag = "Ok"
    /\ ~MachineryFailed
    /\ OpReturned
    /\ result.inner = opResult
    /\ resolveRes = PgOk
    /\ opResult.tag = "Ok" => calls.commit = 1 /\ calls.rollback = 0
    /\ opResult.tag = "Err" => calls.rollback = 1 /\ calls.commit = 0

InFlight == pc \notin {"idle"} \cup Terminal

\* C17: an invocation starts on the client handle only when no invocation
\* is in flight on it, and while one is in flight (from open until commit
\* or rollback has returned) no other transaction is opened on the handle.
C17_ExclusiveHandle ==
    /\ [][invocations' # invocations =>
            /\ ~InFlight
            /\ invocations' = invocations + 1
            /\ pc' = "opening"]_vars
    /\ [][InFlight =>
            /\ invocations' = invocations
            /\ calls'.transaction = calls.transaction
            /\ (client.kind = "mock" /\ pc # "opening") =>
                  Count(client'.transaction) = Count(client.transaction)]_vars

C17_Witness ==
    /\ invocations = 2
    /\ pc = "committing"
    /\ client.kind = "mock"
    /\ Count(client.transaction) = 2

\* C18: in one invocation the operation has been invoked exactly once as
\* soon as the open has succeeded, whatever it returns afterwards, and not
\* at all otherwise.
C18_OperationOnce ==
    /\ Opened => calls.f = 1
    /\ ~Opened => calls.f = 0
    /\ OpReturned => Opened

C18_Witness ==
    /\ pc = "panicked"
    /\ leftAt = "rollingback"
    /\ opResult = Err("e2")
    /\ calls.f = 1

\* C19: an invocation calls client.transaction() exactly once and at most
\* one of commit and rollback, at most once; once open, commit or rollback
\* has failed the invocation has returned that failure as the outer Err and
\* takes no further step.
C19_NoRetry ==
    /\ [](/\ pc # "idle" => calls.transaction = 1
          /\ calls.commit + calls.rollback <= 1
          /\ calls.f <= 1
          /\ MachineryFailed =>
                /\ pc = "returned"
                /\ result = OuterErr(MachineryError))
    /\ [][(MachineryFailed /\ invocations' = invocations) => UNCHANGED txVars]_vars

C19_Witness ==
    /\ invocations = 2
    /\ pc = "returned"
    /\ openRes = PgErr("x1")
    /\ calls = [NoCalls EXCEPT !.transaction = 1]

Ended == pc \in Terminal
OpenInFlight == calls.transaction > 0 /\ openRes.tag = "None" /\ ~Ended
OpInFlight == calls.f > 0 /\ opResult.tag = "None" /\ ~Ended
ResolveInFlight == calls.commit + calls.rollback > 0 /\ resolveRes.tag = "None" /\ ~Ended

\* C25: within one invocation the operation has started only if the open
\* step has completed with Ok, commit or rollback has started only if the
\* operation has completed, and at no time are two of the three steps in
\* flight together.
C25_Sequential ==
    /\ calls.f > 0 => (calls.transaction = 1 /\ openRes = PgOk)
    /\ calls.commit + calls.rollback > 0 => (calls.f = 1 /\ opResult.tag # "None")
    /\ ~(OpenInFlight /\ OpInFlight)
    /\ ~(OpInFlight /\ ResolveInFlight)
    /\ ~(OpenInFlight /\ ResolveInFlight)

C25_Witness ==
    /\ pc = "rollingback"
    /\ client.kind = "default"
    /\ openRes = PgOk
    /\ opResult = Err("e1")
    /\ ResolveInFlight
    /\ calls = [transaction |-> 1, f |-> 1, commit |-> 0, rollback |-> 1]

(***************************************************************************)
(* Properties of Mock.                                                     *)
(***************************************************************************)
Calls == 1 .. Len(history)
TheKind == handles[1].kind

\* C9: on a scripted Mock of n entries the i-th call (i < n) claims index i,
\* a call that returns has claimed an index i < n and returns the result of
\* entry i on its argument, and a call that claimed an index >= n panics and
\* returns no value.
C9_ScriptedOrder ==
    TheKind.tag = "CallSpecific" =>
        LET n == Len(TheKind.fns) IN
        \A p \in Calls :
            LET c == history[p] IN
            /\ p <= n => c.idx = p - 1
            /\ c.status = "returned" =>
                  /\ c.idx < n
                  /\ c.val = TheKind.fns[c.idx + 1][c.args]
                  /\ c.val = <<"entry", c.idx, c.args>>
            /\ c.idx >= n => c.status \in {"running", "panicked"} /\ c.val = NoVal
            /\ c.status = "panicked" => c.idx >= n

C9_Witness ==
    /\ TheKind.tag = "CallSpecific"
    /\ Len(TheKind.fns) = 2
    /\ Len(history) >= 3
    /\ history[1].status = "returned"
    /\ history[2].status = "returned"
    /\ history[2].val = <<"entry", 1, "b">>
    /\ history[3].status = "panicked"

\* C10: when M threads have each called the Mock once, through any handles,
\* the indices claimed are exactly 0 .. M-1, each by one call.
C10_UniqueIndices ==
    (\A t \in Threads : ncalls[t] <= 1) =>
        LET claimed == {history[p].idx : p \in Calls} IN
        /\ Len(history) = Cardinality({t \in Threads : ncalls[t] = 1})
        /\ claimed = 0 .. Len(history) - 1
        /\ \A p, q \in Calls : history[p].idx = history[q].idx => p = q
        /\ \A t, u \in Threads :
              (thr[t].pc = "claimed" /\ thr[u].pc = "claimed" /\ t # u)
                  => thr[t].idx # thr[u].idx

C10_Witness ==
    /\ \A t \in Threads : ncalls[t] = 1 /\ thr[t].pc = "claimed"
    /\ thr[1].h # thr[2].h
    /\ {thr[t].idx : t \in Threads} = 0 .. NThreads - 1

\* C11: on an always Mock no call panics, the j-th call in counter order
\* (j from 0) claims index j, and a call that returns has run the function
\* on its own index and its own argument.
C11_AlwaysIndexed ==
    TheKind.tag = "Always" =>
        /\ \A p \in Calls :
              LET c == history[p] IN
              /\ c.idx = p - 1
              /\ c.status # "panicked"
              /\ c.status = "returned" =>
                    /\ c.val = TheKind.f[<<p - 1, c.args>>]
                    /\ c.val = <<"always", p - 1, c.args>>
        /\ \A t \in Threads : thr[t].pc # "panicked"

C11_Witness ==
    /\ TheKind.tag = "Always"
    /\ Len(history) = MaxCalls
    /\ \A p \in Calls : history[p].status = "returned"
    /\ history[1].args = "a"
    /\ history[2].args = "b"
    /\ history[2].val = <<"always", 1, "b">>

Handles == 1 .. Len(handles)
AllReturned == \A p \in Calls : history[p].status = "returned"

\* C12: when the calls made so far are k calls that all returned, with
\* k <= times(), count() is k on every handle; count() is 0 before any call.
C12_CountAfterCalls ==
    /\ (AllReturned /\ Len(history) <= HandleTimes(handles[1])) =>
          \A h \in Handles : HandleCount(handles[h], heap) = Len(history)
    /\ history = <<>> => \A h \in Handles : HandleCount(handles[h], heap) = 0

C12_Witness ==
    /\ TheKind.tag = "CallSpecific"
    /\ Len(history) = 2
    /\ AllReturned
    /\ HandleTimes(handles[1]) = 2
    /\ HandleCount(handles[1], heap) = 2

\* C13: the clones and the original are one recorder: count() and times()
\* agree on all handles, every handle has the original's counter and
\* behaviour storage, and the calls claim the indices in one order whatever
\* the handle they go through.
C13_ClonesShare ==
    /\ \A h \in Handles :
          /\ handles[h].arc = handles[1].arc
          /\ handles[h].kind = handles[1].kind
          /\ HandleCount(handles[h], heap) = HandleCount(handles[1], heap)
          /\ HandleTimes(handles[h]) = HandleTimes(handles[1])
    /\ \A p \in Calls : history[p].idx = (p - 1) % UsizeModulus
    /\ \A t \in Threads :
          thr[t].pc = "claimed" => thr[t].idx = history[thr[t].pos].idx

C13_Witness ==
    /\ Len(handles) = 2
    /\ TheKind.tag = "CallSpecific"
    /\ Len(TheKind.fns) = 2
    /\ thr[1].pc = "claimed" /\ thr[1].h = 2 /\ thr[1].idx = 0
    /\ thr[2].pc = "claimed" /\ thr[2].h = 1 /\ thr[2].idx = 1
    /\ HandleCount(handles[1], heap) = 2
    /\ HandleCount(handles[2], heap) = 2

\* C14: a Mock built by never() or Default::default() is the empty script:
\* times() is 0 and every call that has gone through the dispatch panicked
\* with no function run and no value returned.
C14_NeverPanics ==
    /\ MockDefault = MockNever
    /\ MockNever.kind = KindCallSpecific(<<>>)
    /\ TheKind = MockNever.kind =>
          /\ \A h \in Handles : HandleTimes(handles[h]) = 0
          /\ \A p \in Calls :
                /\ history[p].status \in {"running", "panicked"}
                /\ history[p].val = NoVal
          /\ \A t \in Threads : ncalls[t] > 0 => thr[t].pc \in {"claimed", "panicked"}

C14_Witness ==
    /\ TheKind = MockDefault.kind
    /\ Len(history) = NThreads
    /\ \A p \in Calls : history[p].status = "panicked"
    /\ \A t \in Threads : thr[t].pc = "panicked"

\* C15: times() is the length of the list on a scripted Mock and usize::MAX
\* on an always Mock, on every handle, and no call or clone changes it: the
\* behaviour storage stays what the constructor built.
C15_TimesFixed ==
    /\ [](\A h \in Handles :
            \/ /\ handles[h].kind.tag = "Always"
               /\ handles[h].kind.f = AlwaysFn
               /\ HandleTimes(handles[h]) = UsizeMax
            \/ /\ handles[h].kind.tag = "CallSpecific"
               /\ \E n \in 0 .. MaxEntries :
                     /\ handles[h].kind.fns = Script(n)
                     /\ HandleTimes(handles[h]) = n)
    /\ [][/\ handles'[1].kind = handles[1].kind
          /\ \A h \in 1 .. Len(handles') :
                HandleTimes(handles'[h]) = HandleTimes(handles[1])]_vars

C15_Witness ==
    /\ Len(handles) = MaxHandles
    /\ Len(history) = 3
    /\ history[3].status = "panicked"
    /\ HandleTimes(handles[MaxHandles]) = 2
    /\ HandleCount(handles[MaxHandles], heap) = 3

Completed == {p \in Calls : history[p].status = "returned"}

\* C20 (as claimed): count() is the number of calls completed so far; a call
\* whose function has not returned and a call that panicked are not counted.
C20_CountIsCompleted ==
    \A h \in Handles : HandleCount(handles[h], heap) = Cardinality(Completed)

\* C20 (amended): count() is the number of calls that have claimed an index
\* so far (modulo the range of usize): a call is counted from its fetch_add
\* on, while its function runs and also when it panics.
C20_CountIsEntered ==
    \A h \in Handles :
        /\ HandleCount(handles[h], heap) = Len(history) % UsizeModulus
        /\ Len(history) < UsizeModulus =>
              HandleCount(handles[h], heap) >= Cardinality(Completed)

C20_Witness ==
    /\ Len(history) = 3
    /\ history[1].status = "returned"
    /\ history[2].status = "panicked"
    /\ history[3].status = "running"
    /\ HandleCount(handles[1], heap) = 3
    /\ Cardinality(Completed) = 1

Returned == {p \in Calls : history[p].status = "returned"}
Panicked == {p \in Calls : history[p].status = "panicked"}
Running == {p \in Calls : history[p].status = "running"}
Min(a, b) == IF a <= b THEN a ELSE b
Max(a, b) == IF a >= b THEN a ELSE b
\* the calls that have run entry i of the script
RanEntry(i) == {p \in Returned : history[p].val[1] = "entry" /\ history[p].val[2] = i}

\* C27: on a scripted Mock of n entries called M times by concurrent
\* callers through any handles, every entry has been run by at most one
\* call, the call that claimed the entry's position; at most min(M, n) calls
\* have returned and at most max(M - n, 0) have panicked, and exactly that
\* many once all M calls have ended.
C27_EntriesOnce ==
    TheKind.tag = "CallSpecific" =>
        LET n == Len(TheKind.fns)
            M == Len(history)
        IN /\ \A i \in 0 .. n - 1 :
                /\ Cardinality(RanEntry(i)) <= 1
                /\ \A p \in RanEntry(i) : history[p].idx = i
           /\ \A p \in Returned : \E i \in 0 .. n - 1 : p \in RanEntry(i)
           /\ Cardinality(Returned) <= Min(M, n)
           /\ Cardinality(Panicked) <= Max(M - n, 0)
           /\ Running = {} =>
                /\ Cardinality(Returned) = Min(M, n)
                /\ Cardinality(Panicked) = Max(M - n, 0)

C27_Witness ==
    /\ TheKind.tag = "CallSpecific"
    /\ Len(TheKind.fns) = 1
    /\ Len(handles) = 2
    /\ \A t \in Threads : ncalls[t] = 1
    /\ Len(history) = NThreads
    /\ history[1].status = "returned"
    /\ history[2].status = "panicked"
    /\ thr[1].pc = "panicked"
    /\ Running = {}

\* C30: every call increments the counter exactly once before its dispatch,
\* also when it then panics: on a scripted Mock count() is the number of
\* calls entered, returned or panicked, and no step makes the counter smaller.
C30_CounterNeverReset ==
    /\ [](TheKind.tag = "CallSpecific" =>
            \A h \in Handles : HandleCount(handles[h], heap) = Len(history))
    /\ [][\A h \in Handles : HandleCount(handles[h], heap') >= HandleCount(handles[h], heap)]_vars

(***************************************************************************)
(* Properties of a Mock over more calls than its counter can count.        *)
(***************************************************************************)
\* C26: the index a call obtains is greater than the index of every earlier
\* call, and it is the index the always function is given, over any number
\* of calls on an always Mock.
C26_StrictlyIncreasing ==
    \A p, q \in 1 .. Len(seqHistory) :
        p < q =>
            /\ seqHistory[p].idx < seqHistory[q].idx
            /\ seqHistory[q].out.val[2] = seqHistory[q].idx

(***************************************************************************)
(* Properties of DefaultEnv.                                               *)
(***************************************************************************)
\* the decimal rendering of an integer (what to_string gives)
RECURSIVE Decimal(_)
Decimal(n) == IF n < 10 THEN <<DigitChars[n + 1]>> ELSE Append(Decimal(n \div 10), DigitChars[(n % 10) + 1])
Render(v) == IF v < 0 THEN <<"-">> \o Decimal(0 - v) ELSE Decimal(v)
U8Renderings == {Render(v) : v \in 0 .. U8Max}
I8Renderings == {Render(v) : v \in I8Min .. I8Max}

\* a numeral without its '+' sign and leading zeros (and without '-' before zero)
RECURSIVE StripZeros(_)
StripZeros(d) == IF Len(d) > 1 /\ Head(d) = "0" THEN StripZeros(Tail(d)) ELSE d
Canon(s) ==
    LET body == IF Head(s) \in {"+", "-"} THEN Tail(s) ELSE s
        z == StripZeros(body)
    IN IF Head(s) = "-" /\ z # <<"0">> THEN <<"-">> \o z ELSE z

\* the string s denotes the value v of the getter's target type
Denotes(ty, s, v) ==
    CASE ty = "bool" -> \/ v = TRUE /\ s = <<"t", "r", "u", "e">>
                        \/ v = FALSE /\ s = <<"f", "a", "l", "s", "e">>
      [] ty = "char" -> s = <<v>>
      [] ty = "u8" -> s # <<>> /\ v \in 0 .. U8Max /\ Head(s) # "-" /\ Canon(s) = Render(v)
      [] ty = "i8" -> s # <<>> /\ v \in I8Min .. I8Max /\ Canon(s) = Render(v)
      [] ty = "non_zero_u8" -> s # <<>> /\ v \in 1 .. U8Max /\ Head(s) # "-" /\ Canon(s) = Render(v)
      [] ty = "path_buf" -> v = s

\* the strings that are the plain rendering of a value of the target type
Renderings(ty) ==
    CASE ty = "bool" -> {<<"t", "r", "u", "e">>, <<"f", "a", "l", "s", "e">>}
      [] ty = "char" -> {<<c>> : c \in EnvChars}
      [] ty = "u8" -> U8Renderings
      [] ty = "i8" -> I8Renderings
      [] ty = "non_zero_u8" -> U8Renderings \ {<<"0">>}
      [] ty = "path_buf" -> EnvStrs

RECURSIVE Join(_, _)
Join(pieces, sep) ==
    IF Len(pieces) = 1 THEN pieces[1]
    ELSE pieces[1] \o sep \o Join(Tail(pieces), sep)
Trimmed(x) == x = <<>> \/ (Head(x) \notin WhiteSpace /\ x[Len(x)] \notin WhiteSpace)
AllSpaces(x) == \A i \in 1 .. Len(x) : x[i] \in WhiteSpace
\* x is s without the white space at its two ends
IsTrimOf(x, s) ==
    /\ Trimmed(x)
    /\ \E i \in 0 .. Len(s) :
          /\ i + Len(x) <= Len(s)
          /\ AllSpaces(SubSeq(s, 1, i))
          /\ SubSeq(s, i + 1, i + Len(x)) = x
          /\ AllSpaces(SubSeq(s, i + Len(x) + 1, Len(s)))
Contains(x, sep) == \E i \in 0 .. Len(x) - Len(sep) : SubSeq(x, i + 1, i + Len(sep)) = sep

DeliveredIds == {delivered[i].id : i \in 1 .. Len(delivered)}
Responded == {r \in Reqs : reqs[r].st = "responded"}
JsonDecode(body) ==
    IF body = <<"null">> THEN JsonNull
    ELSE IF Len(body) = 3 /\ body[1] = "\"" /\ body[3] = "\"" THEN JsonString(body[2])
    ELSE <<"invalid">>

\* every response given has status 200 and carries the configured response
ResponsesAsConfigured ==
    /\ \A r \in Reqs \ Responded : reqs[r].response = NoResponse
    /\ \A r \in Responded :
          LET a == reqs[r].response IN
          /\ a.status = 200
          /\ resp.kind = "Empty" => a.body = <<>>
          /\ resp.kind = "Html" => (a.body = resp.val /\ a.ctype = "text/html")
          /\ resp.kind = "Text" => (a.body = resp.val /\ a.ctype = "text/plain")
          /\ resp.kind = "Json" => (JsonDecode(a.body) = resp.val /\ a.ctype = "application/json")

\* next() has returned the requests once each, in the order of arrival
DeliveredInOrder ==
    /\ Len(delivered) <= Len(arrived)
    /\ \A i \in 1 .. Len(delivered) : delivered[i].id = arrived[i]
    /\ \A i, j \in 1 .. Len(delivered) : delivered[i].id = delivered[j].id => i = j
    /\ \A i \in 1 .. Len(delivered) : reqs[delivered[i].id].sendRes = "ok"

PairsOf(k, ps) == SelectSeq(ps, LAMBDA p : p[1] = k)
FirstOf(k, ps) == PairsOf(k, ps)[1][2]
KeysOf(ps) == {ps[i][1] : i \in 1 .. Len(ps)}

\* d has the method, path, body and multi-valued query of the request w
SameButHeaders(w, d) ==
    /\ d.method = w.method
    /\ d.path = w.path
    /\ d.body = w.body
    /\ DOMAIN d.query = KeysOf(w.query)
    /\ \A k \in KeysOf(w.query) :
          /\ Len(d.query[k]) = Len(PairsOf(k, w.query))
          /\ \A i \in 1 .. Len(d.query[k]) : d.query[k][i] = PairsOf(k, w.query)[i][2]

C22_NothingAfterStop ==
    /\ [](owner = "stopped" =>
            /\ server = "finished"
            /\ InFlightHandlers = {}
            /\ chan = <<>>
            /\ waiters = <<>>
            /\ \A r \in Reqs : reqs[r].at = "stopped" =>
                  (reqs[r].st = "failed" /\ reqs[r].response = NoResponse /\ r \notin DeliveredIds))
    /\ [][owner = "stopped" =>
            /\ arrived' = arrived
            /\ chan' = chan
            /\ delivered' = delivered
            /\ \A r \in Reqs : reqs'[r].st = "responded" => reqs[r].st = "responded"
            /\ \A r \in Reqs : (reqs[r].st = "unsent" /\ reqs'[r].st # "unsent")
                                  => reqs'[r].st = "failed"]_vars

C22_Witness ==
    /\ owner = "stopped"
    /\ reqs[1].st = "responded"
    /\ reqs[1].at = "held"
    /\ delivered # <<>>
    /\ reqs[2].at = "stopped"
    /\ reqs[2].st = "failed"

\* C28: a request that has been answered has completed its send before;
\* if the channel accepted it and the receiver is alive, it has been
\* delivered or it is the request next() returns at once.
C28_SentBeforeResponse ==
    \A r \in Responded :
        /\ reqs[r].sendRes \in {"ok", "err"}
        /\ reqs[r].sendRes = "err" => ~RxOpen
        /\ (reqs[r].sendRes = "ok" /\ RxOpen /\ r \notin DeliveredIds) =>
              /\ chan # <<>>
              /\ Head(chan) = [id |-> r, req |-> BuildRequest(reqs[r].wire)]

C28_Witness ==
    /\ owner = "held"
    /\ reqs[1].st = "responded"
    /\ reqs[1].sendRes = "ok"
    /\ delivered = <<>>
    /\ Head(chan).id = 1
    /\ reqs[2].st = "sending"

\* C29: stop() returns in the end, also with the channel full and a handler
\* waiting in its send while nobody calls next().
C29_StopReturns == (owner = "stopping") ~> (owner = "stopped")

=============================================================================
